---- MODULE Spec2Model ----
(***************************************************************************)
(* A model of parsl's DataFlowKernel (parsl/dataflow/dflow.py): the task   *)
(* table, the task-id counter, submit, launch_task and the completion      *)
(* callback handle_update with its sweep over the pending tasks.           *)
(*                                                                         *)
(* The kernel takes no lock, so submit runs on the caller's threads and    *)
(* handle_update on the executors' threads, interleaved statement by       *)
(* statement; the labels of the steps (S409, H154, ...) are line numbers   *)
(* of dflow.py.  An executor that hands back an already settled future     *)
(* makes add_done_callback run handle_update inside launch_task; the       *)
(* same effects are produced here by the callback running on another       *)
(* thread right after line 287.                                            *)
(***************************************************************************)
EXTENDS Integers, Sequences, FiniteSets, TLC

\* ------------------------------------------------------------------ bounds
MaxTasks == 3          \* submit is not called once task_count reaches this
NumThreads == 2        \* threads of the user program that call submit
MaxItems == 1          \* arguments of one submit (positional + keyword + inputs)
MaxPreempt == 2        \* times a handler is interrupted by another thread
RaceTasks == 4         \* tasks submitted in the workload of the racing sweeps
RacePreempt == 1       \* interruptions in the workload of the racing sweeps
MaxExecutors == 2      \* executors in the registry when cleanup runs
MaxResources == 2      \* resources held by the provider of one executor
DiamondTasks == 5      \* tasks submitted in the workload of the diamond
DiamondItems == 2      \* arguments of one submit in the workload of the diamond

\* --------------------------------------------------------- program constants
fail_retries == 2      \* DataFlowKernel.__init__ default

Executors == {"cpu"}           \* keys of self.executors, the site registry

Threads == 1..NumThreads

\* States (parsl.dataflow.states), as used by dflow.py
unsched  == "unsched"
pending  == "pending"
runnable == "runnable"
running  == "running"
done     == "done"
failed   == "failed"
dep_fail == "dep_fail"

\* ----------------------------------------------------------------- values
\* Every Python value of the model is a record [kind, tid, errs]:
\*   "none"            nothing (an unsettled future holds it)
\*   "plain"           an argument that is not a future; tid is the value
\*   "future"          an AppFuture passed as an argument; tid is its handle
\*   "value"           the result of the function of task tid
\*   "ExecutionError"  the exception raised by the function of task tid
\*   "DependencyError" DependencyError(errs, tid, None)
Obj(k, t, e) == [kind |-> k, tid |-> t, errs |-> e]
NoneObj == Obj("none", 0, <<>>)
Plain(v) == Obj("plain", v, <<>>)
FutArg(a) == Obj("future", a, <<>>)
ErrorKinds == {"ExecutionError", "DependencyError"}
IsErr(o) == o.kind \in ErrorKinds

\* The second argument of the DependencyError built by submit is the string
\* "Failures in input dependencies", not a task id (line 453).
FailuresInInputDependencies == -1

VARIABLES
    lazy_fail,    \* self.lazy_fail
    task_count,   \* self.task_count
    tasks,        \* self.tasks: task id -> task_def
    taskKeys,     \* the keys of self.tasks in insertion order (dict order)
    appFu,        \* the AppFutures created so far
    execFu,       \* the futures of the executors, with their callback thread
    thr,          \* the threads calling submit
    raised,       \* exceptions that left submit or handle_update
    cur,          \* the thread inside submit or a callback that ran last
    switches,     \* the interruptions of a handler so far
    _executors_managed,   \* self._executors_managed
    executors,    \* self.executors.values(): scaling_enabled and the provider's resources
    calls,        \* the calls cleanup has made on the executors, in order
    cl            \* the position of cleanup: its pc and the index of its for loop

\* what cleanup reads and writes
cleanupVars == <<_executors_managed, executors, calls, cl>>

vars == <<lazy_fail, task_count, tasks, taskKeys, appFu, execFu, thr, raised, cur, switches,
          cleanupVars>>


\* ------------------------------------------------------- argument packs
\* The arguments of one submit: *args, the values of **kwargs in dict order
\* (without 'inputs') and kwargs['inputs'].
Pack(a, k, i) == [args |-> a, kw |-> k, inputs |-> i]
EmptyPack == Pack(<<>>, <<>>, <<>>)

\* parsl_sites: the string 'all' or a list of site names
SitesAll == [kind |-> "str", list |-> <<>>]
SitesList(l) == [kind |-> "list", list |-> l]

\* ------------------------------------------------------------ AppFuture
\* done(): the handle has left the unset state
Done(a) == appFu[a].val.kind # "none"

\* AppFuture(None, tid=...): a parent-less, unsettled handle
NewAppFuture(tid) == [val |-> NoneObj, tid |-> tid]

\* set_result / set_exception: at most one transition out of unset
Settle(f, a, o) == IF f[a].val.kind = "none" THEN [f EXCEPT ![a].val = o] ELSE f

\* update_parent(exec_fu) called on handle a: an exec future that is
\* already settled is copied at once, otherwise parent_callback is appended
\* to the callbacks of the exec future, behind handle_update.
BindApp(f, E, a, e) == IF E[e].val.kind # "none" THEN Settle(f, a, E[e].val) ELSE f

BindExec(E, a, e) == IF E[e].val.kind # "none" THEN E ELSE [E EXCEPT ![e].cbs = Append(@, a)]

\* the parent_callbacks registered on an exec future copy its outcome
RECURSIVE RunCallbacks(_, _, _)
RunCallbacks(f, cbs, o) ==
    IF cbs = <<>> THEN f ELSE RunCallbacks(Settle(f, Head(cbs), o), Tail(cbs), o)

\* --------------------------------------------------- dependency analyzer
IsFuture(o) == o.kind = "future"

FuturesOf(s) == LET fs == SelectSeq(s, IsFuture) IN [i \in DOMAIN fs |-> fs[i].tid]

\* _count_deps(depends, task_id): the futures of depends that are not done
_count_deps(depends) == Cardinality({i \in DOMAIN depends : ~Done(depends[i])})

\* _count_all_deps(task_id, args, kwargs): positional args, then keyword
\* values, then kwargs['inputs']
_count_all_deps(pack) ==
    LET depends == FuturesOf(pack.args) \o FuturesOf(pack.kw) \o FuturesOf(pack.inputs)
    IN  [count |-> _count_deps(depends), depends |-> depends]

\* ---------------------------------------------------------------- resolver
\* dep.result() of a settled future, the argument itself otherwise
Result(o) == IF IsFuture(o) THEN appFu[o.tid].val ELSE o
NotErr(o) == ~IsErr(o)

\* sanitize_and_wrap(task_id, args, kwargs): a failed future is left out of
\* new_args and new_inputs and left in place in kwargs
sanitize_and_wrap(pack) ==
    LET ra == [i \in DOMAIN pack.args |-> Result(pack.args[i])]
        rk == [i \in DOMAIN pack.kw |-> Result(pack.kw[i])]
        ri == [i \in DOMAIN pack.inputs |-> Result(pack.inputs[i])]
    IN  [new_args |-> SelectSeq(ra, NotErr),
         kwargs |-> [i \in DOMAIN pack.kw |-> IF IsErr(rk[i]) THEN pack.kw[i] ELSE rk[i]],
         new_inputs |-> SelectSeq(ri, NotErr),
         exceptions |-> SelectSeq(ra, IsErr) \o SelectSeq(rk, IsErr) \o SelectSeq(ri, IsErr)]

\* ------------------------------------------------------- site selection
\* launch_task lines 271-284: the values random.choice can return; an empty
\* list makes random.choice raise IndexError
NoSite == "IndexError"
site_choice(sites) ==
    IF sites.kind = "str" THEN Executors
    ELSE IF sites.list = <<>> THEN {NoSite}
    ELSE {sites.list[i] : i \in DOMAIN sites.list}

\* self.executors[site] succeeds; otherwise the except clause is entered and
\* its logger.error call raises TypeError (two %s, one argument)
launch_ok(site) == site \in Executors

\* ----------------------------------------------------------------- inputs
\* The AppFutures the user program can pass to submit: those stored in the
\* task table by a submit that has returned.
Handles == {tasks[i].app_fu : i \in DOMAIN tasks} \ {0}

Items == {Plain(7)} \cup {FutArg(a) : a \in Handles}

SeqsUpTo(S, n) == UNION {[1..k -> S] : k \in 0..n}

Futures == {FutArg(a) : a \in Handles}

\* Packs of at most n arguments, all in one group: positional arguments
\* (futures, and plain values when plain is set), keyword arguments or inputs
ArgPacks(groups, plain, n) ==
    {EmptyPack}
    \cup (IF "args" \in groups
          THEN {Pack(a, <<>>, <<>>) : a \in SeqsUpTo(IF plain THEN Items ELSE Futures, n)}
          ELSE {})
    \cup (IF "kwargs" \in groups THEN {Pack(<<>>, k, <<>>) : k \in SeqsUpTo(Futures, n)} ELSE {})
    \cup (IF "inputs" \in groups THEN {Pack(<<>>, <<>>, i) : i \in SeqsUpTo(Futures, n)} ELSE {})

SiteInputs == {SitesAll, SitesList(<<>>), SitesList(<<"gpu">>), SitesList(<<"cpu", "gpu">>)}

\* A workload: what the user program and the scheduler of the threads may do.
\*   tasks    submit is called while task_count is below it
\*   threads  the threads that call submit
\*   groups   the argument groups that hold the arguments of a submit
\*   plain    whether plain values are passed besides futures
\*   items    the number of arguments of a submit
\*   sites    the values of parsl_sites
\*   lazy     the values of lazy_fail
\*   preempt  how often a thread inside submit or a callback is interrupted
Packs(W) == ArgPacks(W.groups, W.plain, W.items)

\* an executor as cleanup sees it: scaling_enabled and
\* len(execution_provider.resources)
Executor(s, n) == [scaling_enabled |-> s, resources |-> n]

CleanupNotCalled == [pc |-> "idle", idx |-> 0]

\* ------------------------------------------------------------------- Init
IdleThread == [pc |-> "idle", task_id |-> 0, pack |-> EmptyPack, sites |-> SitesAll,
               dep_cnt |-> 0, depends |-> <<>>]

Init(W) ==
    /\ lazy_fail \in W.lazy
    /\ task_count = 0
    /\ tasks = <<>>
    /\ taskKeys = <<>>
    /\ appFu = <<>>
    /\ execFu = <<>>
    /\ thr = [t \in Threads |-> IdleThread]
    /\ raised = {}
    /\ cur = 0
    /\ switches = 0
    /\ _executors_managed = TRUE
    /\ executors = <<Executor(FALSE, 0)>>
    /\ calls = <<>>
    /\ cl = CleanupNotCalled

\* an exception leaves submit or handle_update; tid is the task that was
\* being submitted, completed or launched
Raise(op, tid, exc) == raised \cup {[op |-> op, tid |-> tid, exc |-> exc]}

\* executor.submit(executable, *args, **kwargs) followed by
\* exec_fu.add_done_callback(partial(self.handle_update, task_id)):
\* the new future of the executor, handle_update its first callback
NewExecFuture(task_id, site, call) ==
    [tid |-> task_id, site |-> site, call |-> call, executor |-> TRUE, val |-> NoneObj,
     pc |-> "running", snap |-> 0, idx |-> 0, cbs |-> <<>>, cur |-> 0, new |-> 0,
     new_call |-> EmptyPack, exceptions |-> <<>>]

\* -------------------------------------------------------------- scheduling
\* Threads are numbered -t (thread t of the user program, inside submit) and
\* e (the executor thread running the callbacks of exec future e).
Mid(p) ==
    IF p < 0 THEN thr[-p].pc # "idle"
    ELSE IF p > 0 THEN execFu[p].pc \notin {"running", "done"}
    ELSE FALSE

\* Thread p takes a step.  When the thread that ran last is still inside its
\* handler, p interrupts it, which happens at most W.preempt times.
Sched(p, W) ==
    /\ IF Mid(cur) /\ p # cur
       THEN switches < W.preempt /\ switches' = switches + 1
       ELSE UNCHANGED switches
    /\ cur' = p

\* ----------------------------------------------------------------- submit
\* line 409: task_id = self.task_count
S409(t, W) ==
    /\ Sched(-t, W)
    /\ thr[t].pc = "idle"
    /\ task_count < W.tasks
    /\ \E pack \in Packs(W), sites \in W.sites :
         thr' = [thr EXCEPT ![t] = [IdleThread EXCEPT !.pc = "S410", !.task_id = task_count,
                                                      !.pack = pack, !.sites = sites]]
    /\ UNCHANGED <<cleanupVars, lazy_fail, task_count, tasks, taskKeys, appFu, execFu, raised>>

\* line 410: self.task_count += 1
S410(t, W) ==
    /\ Sched(-t, W)
    /\ thr[t].pc = "S410"
    /\ task_count' = task_count + 1
    /\ thr' = [thr EXCEPT ![t].pc = "S413"]
    /\ UNCHANGED <<cleanupVars, lazy_fail, tasks, taskKeys, appFu, execFu, raised>>

\* lines 413-428: count the dependencies, build task_def, test the table
S413(t, W) ==
    /\ Sched(-t, W)
    /\ thr[t].pc = "S413"
    /\ LET d == _count_all_deps(thr[t].pack) IN
         IF thr[t].task_id \in DOMAIN tasks
         THEN /\ raised' = Raise("submit", thr[t].task_id, "DuplicateTaskError")
              /\ thr' = [thr EXCEPT ![t] = IdleThread]
         ELSE /\ thr' = [thr EXCEPT ![t].pc = "S430", ![t].dep_cnt = d.count,
                                    ![t].depends = d.depends]
              /\ UNCHANGED raised
    /\ UNCHANGED <<cleanupVars, lazy_fail, task_count, tasks, taskKeys, appFu, execFu>>

\* task_def of lines 415-425; owner names the thread whose dict it is
task_def(t) ==
    [depends |-> thr[t].depends, sites |-> thr[t].sites, pack |-> thr[t].pack,
     dep_cnt |-> thr[t].dep_cnt, exec_fu |-> 0, status |-> unsched, app_fu |-> 0,
     owner |-> t]

\* line 430: self.tasks[task_id] = task_def
S430(t, W) ==
    /\ Sched(-t, W)
    /\ thr[t].pc = "S430"
    /\ LET id == thr[t].task_id IN
         IF id \in DOMAIN tasks
         THEN /\ tasks' = [tasks EXCEPT ![id] = task_def(t)]
              /\ UNCHANGED taskKeys
         ELSE /\ tasks' = [i \in DOMAIN tasks \cup {id} |->
                             IF i = id THEN task_def(t) ELSE tasks[i]]
              /\ taskKeys' = Append(taskKeys, id)
    /\ thr' = [thr EXCEPT ![t].pc = "S436"]
    /\ UNCHANGED <<cleanupVars, lazy_fail, task_count, appFu, execFu, raised>>

\* kwargs is resolved in place: the dict of the task_def of thread t
InPlace(T, id, t, s) ==
    IF T[id].owner = t
    THEN [T EXCEPT ![id].pack = Pack(@.args, s.kwargs, s.new_inputs)]
    ELSE T

\* lines 457-463: dep_cnt > 0, the task is sent to pending
S436_pending(t, W) ==
    /\ Sched(-t, W)
    /\ thr[t].pc = "S436"
    /\ thr[t].dep_cnt # 0
    /\ LET id == thr[t].task_id
           a  == Len(appFu) + 1
       IN  /\ appFu' = Append(appFu, NewAppFuture(id))
           /\ tasks' = [tasks EXCEPT ![id].app_fu = a, ![id].status = pending]
    /\ thr' = [thr EXCEPT ![t] = IdleThread]
    /\ UNCHANGED <<cleanupVars, lazy_fail, task_count, taskKeys, execFu, raised>>

\* lines 436-438 and 446-456: dep_cnt == 0 and the resolver reports errors
S436_dep_fail(t, W) ==
    /\ Sched(-t, W)
    /\ thr[t].pc = "S436"
    /\ thr[t].dep_cnt = 0
    /\ LET id == thr[t].task_id
           s  == sanitize_and_wrap(thr[t].pack)
           a  == Len(appFu) + 1
           e  == Obj("DependencyError", FailuresInInputDependencies, s.exceptions)
       IN  /\ s.exceptions # <<>>
           /\ appFu' = Append(appFu, [NewAppFuture(id) EXCEPT !.val = e])
           /\ tasks' = [InPlace(tasks, id, t, s) EXCEPT ![id].exec_fu = 0, ![id].app_fu = a,
                                                        ![id].status = dep_fail]
    /\ thr' = [thr EXCEPT ![t] = IdleThread]
    /\ UNCHANGED <<cleanupVars, lazy_fail, task_count, taskKeys, execFu, raised>>

\* lines 436-440: dep_cnt == 0, no errors: launch_task (lines 268-289) and
\* the assignment of its result to exec_fu
S436_launch(t, W) ==
    /\ Sched(-t, W)
    /\ thr[t].pc = "S436"
    /\ thr[t].dep_cnt = 0
    /\ LET id == thr[t].task_id
           s  == sanitize_and_wrap(thr[t].pack)
           T  == InPlace(tasks, id, t, s)
       IN  /\ s.exceptions = <<>>
           /\ \E site \in site_choice(T[id].sites) :
                IF launch_ok(site)
                THEN /\ execFu' = Append(execFu,
                            NewExecFuture(id, site, Pack(s.new_args, s.kwargs, s.new_inputs)))
                     /\ tasks' = [T EXCEPT ![id].exec_fu = Len(execFu) + 1]
                     /\ thr' = [thr EXCEPT ![t].pc = "S441"]
                     /\ UNCHANGED raised
                ELSE /\ raised' = Raise("submit", id, "TypeError")
                     /\ tasks' = T
                     /\ thr' = [thr EXCEPT ![t] = IdleThread]
                     /\ UNCHANGED execFu
    /\ UNCHANGED <<cleanupVars, lazy_fail, task_count, taskKeys, appFu>>

\* lines 441-445: AppFuture(self.tasks[task_id]['exec_fu'], ...) and
\* status = running
S441(t, W) ==
    /\ Sched(-t, W)
    /\ thr[t].pc = "S441"
    /\ LET id == thr[t].task_id
           e  == tasks[id].exec_fu
           a  == Len(appFu) + 1
           f  == Append(appFu, NewAppFuture(id))
       IN  /\ appFu' = IF e = 0 THEN f ELSE BindApp(f, execFu, a, e)
           /\ execFu' = IF e = 0 THEN execFu ELSE BindExec(execFu, a, e)
           /\ tasks' = [tasks EXCEPT ![id].app_fu = a, ![id].status = running]
    /\ thr' = [thr EXCEPT ![t] = IdleThread]
    /\ UNCHANGED <<cleanupVars, lazy_fail, task_count, taskKeys, raised>>

\* --------------------------------------------------------------- executor
\* The executor finishes the function of a launched task: its future settles
\* with the result or with the exception, and its callbacks start to run on
\* the executor's thread, handle_update first.
ExecSettle(e, W) ==
    /\ Sched(e, W)
    /\ execFu[e].pc = "running"
    /\ \E k \in {"value", "ExecutionError"} :
         execFu' = [execFu EXCEPT ![e].val = Obj(k, execFu[e].tid, <<>>), ![e].pc = "H135"]
    /\ UNCHANGED <<cleanupVars, lazy_fail, task_count, tasks, taskKeys, appFu, thr, raised>>

\* ---------------------------------------------------------- handle_update
\* handle_update without the raise of line 146: the failure is recorded and
\* the sweep goes on
H135_no_raise(e, W) ==
    /\ Sched(e, W)
    /\ execFu[e].pc = "H135"
    /\ LET task_id == execFu[e].tid IN
         /\ tasks' = [tasks EXCEPT ![task_id].status =
                          IF ~lazy_fail /\ IsErr(execFu[e].val) THEN failed ELSE done]
         /\ execFu' = [execFu EXCEPT ![e].pc = "H154", ![e].snap = Len(taskKeys), ![e].idx = 1]
    /\ UNCHANGED <<cleanupVars, lazy_fail, task_count, taskKeys, appFu, thr, raised>>

\* lines 135-152: the status of the completing task, then list(self.tasks)
H135(e, W) ==
    /\ Sched(e, W)
    /\ execFu[e].pc = "H135"
    /\ LET task_id == execFu[e].tid IN
         IF ~lazy_fail /\ IsErr(execFu[e].val)
         THEN /\ tasks' = [tasks EXCEPT ![task_id].status = failed]
              /\ raised' = Raise("handle_update", task_id, execFu[e].val.kind)
              /\ execFu' = [execFu EXCEPT ![e].pc = "cb"]
         ELSE /\ tasks' = [tasks EXCEPT ![task_id].status = done]
              /\ execFu' = [execFu EXCEPT ![e].pc = "H154", ![e].snap = Len(taskKeys),
                                          ![e].idx = 1]
              /\ UNCHANGED raised
    /\ UNCHANGED <<cleanupVars, lazy_fail, task_count, taskKeys, appFu, thr>>

\* the for loop moves on to the next tid, or handle_update returns
NextTid(r) ==
    IF r.idx + 1 > r.snap
    THEN [r EXCEPT !.pc = "cb", !.idx = 0, !.snap = 0, !.cur = 0, !.new = 0,
                   !.new_call = EmptyPack, !.exceptions = <<>>]
    ELSE [r EXCEPT !.pc = "H154", !.idx = @ + 1, !.cur = 0, !.new = 0,
                   !.new_call = EmptyPack, !.exceptions = <<>>]

\* handle_update is left by an exception
Abort(r) == [r EXCEPT !.pc = "cb", !.idx = 0, !.snap = 0, !.cur = 0, !.new = 0,
                      !.new_call = EmptyPack, !.exceptions = <<>>]

\* lines 153-163: skip a task that is not pending or has unsettled
\* dependencies; otherwise resolve its arguments
H154(e, W) ==
    /\ Sched(e, W)
    /\ execFu[e].pc = "H154"
    /\ LET tid == taskKeys[execFu[e].idx] IN
         IF tasks[tid].status # pending \/ _count_deps(tasks[tid].depends) # 0
         THEN /\ execFu' = [execFu EXCEPT ![e] = NextTid(@)]
              /\ UNCHANGED tasks
         ELSE LET s == sanitize_and_wrap(tasks[tid].pack) IN
              /\ tasks' = [tasks EXCEPT ![tid].pack = Pack(@.args, s.kwargs, s.new_inputs)]
              /\ execFu' = [execFu EXCEPT
                    ![e].pc = IF s.exceptions = <<>> THEN "H166" ELSE "H178",
                    ![e].cur = tid,
                    ![e].new_call = Pack(s.new_args, s.kwargs, s.new_inputs),
                    ![e].exceptions = s.exceptions]
    /\ UNCHANGED <<cleanupVars, lazy_fail, task_count, taskKeys, appFu, thr, raised>>

\* lines 166-168: status = running, launch_task, and the assignment of the
\* new future to the exec_fu of the completing task
H166(e, W) ==
    /\ Sched(e, W)
    /\ execFu[e].pc = "H166"
    /\ LET task_id == execFu[e].tid
           tid == execFu[e].cur
       IN  \E site \in site_choice(tasks[tid].sites) :
             IF launch_ok(site)
             THEN /\ execFu' = Append([execFu EXCEPT ![e].pc = "H170",
                                                     ![e].new = Len(execFu) + 1],
                                      NewExecFuture(tid, site, execFu[e].new_call))
                  /\ tasks' = [[tasks EXCEPT ![tid].status = running]
                                  EXCEPT ![task_id].exec_fu = Len(execFu) + 1]
                  /\ UNCHANGED raised
             ELSE /\ execFu' = [execFu EXCEPT ![e] = Abort(@)]
                  /\ tasks' = [tasks EXCEPT ![tid].status = running]
                  /\ raised' = Raise("handle_update", tid, "TypeError")
    /\ UNCHANGED <<cleanupVars, lazy_fail, task_count, taskKeys, appFu, thr>>

\* lines 169-174: update_parent on the app_fu of the promoted task, then
\* its exec_fu
H170(e, W) ==
    /\ Sched(e, W)
    /\ execFu[e].pc = "H170"
    /\ LET tid == execFu[e].cur
           exec_fu == execFu[e].new
           a == tasks[tid].app_fu
       IN  IF a = 0
           THEN /\ raised' = Raise("handle_update", tid, "AttributeError")
                /\ execFu' = [execFu EXCEPT ![e] = Abort(@)]
                /\ UNCHANGED <<appFu, tasks>>
           ELSE /\ appFu' = BindApp(appFu, execFu, a, exec_fu)
                /\ execFu' = [BindExec(execFu, a, exec_fu) EXCEPT ![e] = NextTid(@)]
                /\ tasks' = [tasks EXCEPT ![tid].exec_fu = exec_fu]
                /\ UNCHANGED raised
    /\ UNCHANGED <<cleanupVars, lazy_fail, task_count, taskKeys, thr>>

\* lines 176-190: status = dep_fail; a fresh Future becomes the exec_fu and
\* the parent of the app_fu and is settled with the DependencyError
H178(e, W) ==
    /\ Sched(e, W)
    /\ execFu[e].pc = "H178"
    /\ LET tid == execFu[e].cur
           fu == Len(execFu) + 1
           a == tasks[tid].app_fu
           err == Obj("DependencyError", tid, execFu[e].exceptions)
           Fut(v) == [NewExecFuture(tid, "none", EmptyPack) EXCEPT
                         !.executor = FALSE, !.pc = "done", !.val = v]
       IN  /\ tasks' = [tasks EXCEPT ![tid].status = dep_fail, ![tid].exec_fu = fu]
           /\ IF a = 0
              THEN /\ raised' = Raise("handle_update", tid, "AttributeError")
                   /\ execFu' = Append([execFu EXCEPT ![e] = Abort(@)], Fut(NoneObj))
                   /\ UNCHANGED appFu
              ELSE /\ appFu' = Settle(appFu, a, err)
                   /\ execFu' = Append([execFu EXCEPT ![e] = NextTid(@)], Fut(err))
                   /\ UNCHANGED raised
    /\ UNCHANGED <<cleanupVars, lazy_fail, task_count, taskKeys, thr>>

\* after handle_update the remaining callbacks of the exec future run: the
\* parent_callback of every AppFuture bound to it
ParentCallbacks(e, W) ==
    /\ Sched(e, W)
    /\ execFu[e].pc = "cb"
    /\ appFu' = RunCallbacks(appFu, execFu[e].cbs, execFu[e].val)
    /\ execFu' = [execFu EXCEPT ![e].pc = "done", ![e].cbs = <<>>]
    /\ UNCHANGED <<cleanupVars, lazy_fail, task_count, tasks, taskKeys, thr, raised>>

\* ------------------------------------------------------------------- Next
Step(W) ==
    \/ \E t \in W.threads : S409(t, W)
    \/ \E t \in W.threads : S410(t, W)
    \/ \E t \in W.threads : S413(t, W)
    \/ \E t \in W.threads : S430(t, W)
    \/ \E t \in W.threads : S436_pending(t, W)
    \/ \E t \in W.threads : S436_dep_fail(t, W)
    \/ \E t \in W.threads : S436_launch(t, W)
    \/ \E t \in W.threads : S441(t, W)
    \/ \E e \in DOMAIN execFu : ExecSettle(e, W)
    \/ \E e \in DOMAIN execFu : H135(e, W)
    \/ \E e \in DOMAIN execFu : H154(e, W)
    \/ \E e \in DOMAIN execFu : H166(e, W)
    \/ \E e \in DOMAIN execFu : H170(e, W)
    \/ \E e \in DOMAIN execFu : H178(e, W)
    \/ \E e \in DOMAIN execFu : ParentCallbacks(e, W)

\* every step but the start of a new submit call
Progress(W) ==
    \/ \E t \in W.threads : S410(t, W)
    \/ \E t \in W.threads : S413(t, W)
    \/ \E t \in W.threads : S430(t, W)
    \/ \E t \in W.threads : S436_pending(t, W)
    \/ \E t \in W.threads : S436_dep_fail(t, W)
    \/ \E t \in W.threads : S436_launch(t, W)
    \/ \E t \in W.threads : S441(t, W)
    \/ \E e \in DOMAIN execFu : ExecSettle(e, W)
    \/ \E e \in DOMAIN execFu : H135(e, W)
    \/ \E e \in DOMAIN execFu : H154(e, W)
    \/ \E e \in DOMAIN execFu : H166(e, W)
    \/ \E e \in DOMAIN execFu : H170(e, W)
    \/ \E e \in DOMAIN execFu : H178(e, W)
    \/ \E e \in DOMAIN execFu : ParentCallbacks(e, W)

\* The kernel under threads: submit on two threads, callbacks on the
\* executors' threads, interleaved at every statement.
Threaded ==
    [tasks |-> MaxTasks, threads |-> Threads, groups |-> {"args"}, plain |-> FALSE,
     items |-> MaxItems,
     sites |-> {SitesAll}, lazy |-> {TRUE}, preempt |-> MaxPreempt]

Next == Step(Threaded)

Spec == Init(Threaded) /\ [][Next]_vars

\* Handlers that run to completion: no thread is interrupted.  One thread
\* submits; every argument shape, site list and fail mode occurs.
Sequential ==
    [tasks |-> MaxTasks, threads |-> {1}, groups |-> {"args", "kwargs", "inputs"},
     plain |-> TRUE, items |-> MaxItems,
     sites |-> SiteInputs, lazy |-> BOOLEAN, preempt |-> 0]

NextAtomic == Step(Sequential)

SpecAtomic == Init(Sequential) /\ [][NextAtomic]_vars

\* One thread submits a longer program; the callbacks of two exec futures
\* may run at the same time.
SweepRace ==
    [tasks |-> RaceTasks, threads |-> {1}, groups |-> {"args", "inputs"}, plain |-> FALSE,
     items |-> MaxItems,
     sites |-> {SitesAll}, lazy |-> {TRUE}, preempt |-> RacePreempt]

NextRace == Step(SweepRace)

SpecRace == Init(SweepRace) /\ [][NextRace]_vars

\* Lazy-fail mode with sites that are all registered; handlers run to
\* completion.  A submit call that has started returns, every future of an
\* executor settles and its callbacks run; the user program need not call
\* submit again.
Registered ==
    [tasks |-> MaxTasks, threads |-> {1}, groups |-> {"args", "inputs"}, plain |-> FALSE,
     items |-> MaxItems, sites |-> {SitesAll, SitesList(<<"cpu">>)}, lazy |-> {TRUE},
     preempt |-> 0]

NextLive == Step(Registered)

SpecLive == Init(Registered) /\ [][NextLive]_vars /\ WF_vars(Progress(Registered))

\* ------------------------------------------------------------ observations
\* the calls of executor.submit made for task t
Launches(t) == {e \in DOMAIN execFu : execFu[e].executor /\ execFu[e].tid = t}

\* no thread is inside submit or inside the callbacks of an exec future
Quiescent ==
    /\ \A t \in Threads : thr[t].pc = "idle"
    /\ \A e \in DOMAIN execFu : execFu[e].pc \in {"running", "done"}

Terminal == {done, failed, dep_fail}

\* the app handle of task t is settled
Settled(t) == tasks[t].app_fu # 0 /\ Done(tasks[t].app_fu)

\* a handle in the depends list of task t settled with an error
FailedDep(t) == \E i \in DOMAIN tasks[t].depends : IsErr(appFu[tasks[t].depends[i]].val)

\* thread t is inside submit
InSubmit(t) == thr[t].pc # "idle"

NoRegisteredSite(sites) ==
    sites.kind = "list" /\ \A i \in DOMAIN sites.list : sites.list[i] \notin Executors

SomeRegisteredSite(sites) ==
    sites.kind = "list" /\ \E i \in DOMAIN sites.list : sites.list[i] \in Executors

\* task t has left pending, or was never sent there, and its dependencies
\* have all settled without an error
ReadyToLaunch(t) ==
    /\ tasks[t].status # pending
    /\ \A i \in DOMAIN tasks[t].depends :
          Done(tasks[t].depends[i]) /\ ~IsErr(appFu[tasks[t].depends[i]].val)

\* ------------------------------------------------------------------ claims

\* C1: exactly-once launch.  For every task the executor's submit is called
\* at most once, and exactly once when the task has reached running (a task
\* that is running, done or failed has been running).
C1_ExactlyOnceLaunch ==
    \A t \in DOMAIN tasks :
        /\ Cardinality(Launches(t)) <= 1
        /\ tasks[t].status \in {running, done, failed} => Cardinality(Launches(t)) = 1

\* C2: dependency precedence.  A task with an unsettled handle in its
\* depends list has status unsched or pending.
C2_DependencyPrecedence ==
    \A t \in DOMAIN tasks :
        (\E i \in DOMAIN tasks[t].depends : ~Done(tasks[t].depends[i]))
            => tasks[t].status \in {unsched, pending}

\* C3: dep-failure closure.  A task with a handle in its depends list that
\* settled with an error is never submitted to an executor, and its app handle
\* settles with nothing but a DependencyError.
C3_DepFailureClosure ==
    \A t \in DOMAIN tasks :
        FailedDep(t) =>
            /\ Launches(t) = {}
            /\ Settled(t) => appFu[tasks[t].app_fu].val.kind = "DependencyError"

\* C4: terminal stability.  A status done, failed or dep_fail never changes.
C4_TerminalStability ==
    [][\A t \in DOMAIN tasks :
          tasks[t].status \in Terminal => tasks'[t].status = tasks[t].status]_vars

\* C5: when no submit and no callback is under way, the app handle of a task
\* is settled iff its status is done, failed or dep_fail.
C5_SettledIffTerminal ==
    Quiescent => \A t \in DOMAIN tasks : Settled(t) <=> tasks[t].status \in Terminal

\* C6: liveness in lazy-fail mode.  Every task in the table eventually has a
\* settled app handle.
C6_EveryTaskSettles ==
    \A t \in 0..(MaxTasks - 1) :
        (t \in DOMAIN tasks) ~> (t \in DOMAIN tasks /\ Settled(t))

\* C7: id uniqueness.  Two submit calls never hold the same task id, a
\* submit that has not stored its record yet finds its id unused, the ids in
\* the table are 0, 1, 2, ... in submit order, and DuplicateTaskError is
\* never raised.
C7_IdUniqueness ==
    /\ \A t1, t2 \in Threads :
          t1 # t2 /\ InSubmit(t1) /\ InSubmit(t2) => thr[t1].task_id # thr[t2].task_id
    /\ \A t \in Threads :
          thr[t].pc \in {"S410", "S413", "S430"} => thr[t].task_id \notin DOMAIN tasks
    /\ \A i \in DOMAIN taskKeys : taskKeys[i] = i - 1
    /\ \A r \in raised : r.exc # "DuplicateTaskError"

\* C8: routing failure.  Once its handler is over, a task that was ready to
\* launch and names a list of sites none of which is registered has a
\* terminal status and an app handle settled with an error, and no exception
\* has left submit or handle_update for it.
C8_RoutingFailure ==
    Quiescent =>
        \A t \in DOMAIN tasks :
            NoRegisteredSite(tasks[t].sites) /\ ReadyToLaunch(t) =>
                /\ tasks[t].status \in Terminal
                /\ Settled(t) /\ IsErr(appFu[tasks[t].app_fu].val)
                /\ \A r \in raised : r.tid # t

\* C9: site selection.  Launching a task whose site list names a registered
\* site never fails, and every executor a task was launched on is registered
\* and, for a site list, a member of the list.
C9_SiteSelection ==
    /\ \A r \in raised :
          r.exc = "TypeError" => ~SomeRegisteredSite(tasks[r.tid].sites)
    /\ \A e \in DOMAIN execFu :
          execFu[e].executor =>
              /\ execFu[e].site \in Executors
              /\ tasks[execFu[e].tid].sites.kind = "list" =>
                    \E i \in DOMAIN tasks[execFu[e].tid].sites.list :
                        tasks[execFu[e].tid].sites.list[i] = execFu[e].site

\* C10: retries.  A task whose function failed is launched again until
\* fail_retries re-launches have failed too: it is failed, or its app handle
\* holds the error of its function, only after 1 + fail_retries launches, and
\* it is never launched more often.
C10_Retries ==
    \A t \in DOMAIN tasks :
        /\ Cardinality(Launches(t)) <= 1 + fail_retries
        /\ tasks[t].status = failed => Cardinality(Launches(t)) = 1 + fail_retries
        /\ Settled(t) /\ appFu[tasks[t].app_fu].val.kind = "ExecutionError"
               => Cardinality(Launches(t)) = 1 + fail_retries

\* handle_update of exec future e has passed lines 135-149
Completed(e) == execFu[e].executor /\ execFu[e].pc \notin {"running", "H135"}

\* C11: completion status.  In either fail mode, once the completion callback
\* of a task has recorded its status, the status is done when the executor's
\* future holds a value and failed when it holds an error; a task whose
\* executor future holds an error is never done.
C11_CompletionStatus ==
    \A e \in DOMAIN execFu :
        /\ Completed(e) =>
              tasks[execFu[e].tid].status = (IF IsErr(execFu[e].val) THEN failed ELSE done)
        /\ execFu[e].executor /\ IsErr(execFu[e].val) => tasks[execFu[e].tid].status # done

\* the tasks whose app handles are in the depends list of task t
DirectDeps(t) == {appFu[tasks[t].depends[i]].tid : i \in DOMAIN tasks[t].depends}

\* the tasks that task t depends on, directly or transitively
RECURSIVE Upstream(_)
Upstream(t) == DirectDeps(t) \cup UNION {Upstream(u) : u \in DirectDeps(t)}

\* the function of task u raised: an executor future of u holds an error
ExecFailed(u) == \E e \in Launches(u) : IsErr(execFu[e].val)

\* the app handle of task t is settled with an outcome of kind k
SettledWith(t, k) == Settled(t) /\ appFu[tasks[t].app_fu].val.kind = k

\* C12: lazy-fail propagation.  In lazy-fail mode a task that depends,
\* directly or transitively, on a task whose function raised eventually
\* settles with a DependencyError, and every task eventually settles: with
\* the outcome of its own function unless a task it depends on raised.
C12_LazyPropagation ==
    \A t \in 0..(MaxTasks - 1) :
        /\ (t \in DOMAIN tasks /\ \E u \in Upstream(t) : ExecFailed(u))
              ~> (t \in DOMAIN tasks /\ SettledWith(t, "DependencyError"))
        /\ (t \in DOMAIN tasks)
              ~> (t \in DOMAIN tasks /\
                    \/ SettledWith(t, "value")
                    \/ SettledWith(t, "ExecutionError")
                    \/ \E u \in Upstream(t) : ExecFailed(u))

\* Eager-fail mode: one thread submits with sites 'all' and a callback may
\* run on an executor's thread while submit is under way.
Eager ==
    [tasks |-> MaxTasks, threads |-> {1}, groups |-> {"args"}, plain |-> FALSE,
     items |-> MaxItems, sites |-> {SitesAll}, lazy |-> {FALSE}, preempt |-> RacePreempt]

NextEager == Step(Eager)

SpecEager == Init(Eager) /\ [][NextEager]_vars

\* the callback of exec future e runs in eager-fail mode for a function that raised
EagerFailure(e) == ~lazy_fail /\ execFu[e].executor /\ IsErr(execFu[e].val)

\* C13: eager-fail mode.  The completion callback of a task whose executor
\* future holds an error marks that task failed and re-raises the error
\* before any sweep: it changes no other field of the task table, settles no
\* handle and launches nothing.
C13_EagerFail ==
    [][\A e \in DOMAIN execFu :
          (EagerFailure(e) /\ execFu[e].pc = "H135" /\ execFu'[e].pc # "H135") =>
              /\ tasks' = [tasks EXCEPT ![execFu[e].tid].status = failed]
              /\ [op |-> "handle_update", tid |-> execFu[e].tid, exc |-> execFu[e].val.kind]
                    \in raised'
              /\ execFu'[e].pc = "cb"
              /\ appFu' = appFu
              /\ Len(execFu') = Len(execFu)
      ]_vars

\* an eager-fail callback is over and a task that depends on the failed task
\* is still pending
C13_Witness ==
    \E e \in DOMAIN execFu :
        /\ EagerFailure(e) /\ execFu[e].pc = "done"
        /\ tasks[execFu[e].tid].status = failed
        /\ \E t \in DOMAIN tasks : tasks[t].status = pending /\ execFu[e].tid \in DirectDeps(t)

\* the callback thread of exec future e is inside handle_update: it has
\* written the status of the completing task and its sweep is not over
InHandleUpdate(e) == execFu[e].pc \in {"H154", "H166", "H170", "H178"}

\* the threads inside submit (numbered -t) or inside handle_update
InSection == {-t : t \in {u \in Threads : InSubmit(u)}} \cup {e \in DOMAIN execFu : InHandleUpdate(e)}

\* C14: mutual exclusion.  At most one thread at a time is inside the
\* sections of submit, launch_task and the sweep that read or write the task
\* table, the task-id counter or a status.
C14_MutualExclusion == Cardinality(InSection) <= 1

\* ----------------------------------------------------------------- cleanup
\* line 484 without the test of self._executors_managed
C484_always ==
    /\ cl.pc = "idle"
    /\ cl' = [pc |-> "for", idx |-> 1]
    /\ UNCHANGED <<_executors_managed, executors, calls>>

\* lines 484-485: nothing to do when the executors are managed outside
C484 ==
    /\ cl.pc = "idle"
    /\ cl' = IF ~_executors_managed THEN [pc |-> "done", idx |-> 0] ELSE [pc |-> "for", idx |-> 1]
    /\ UNCHANGED <<_executors_managed, executors, calls>>

\* lines 487-490: the next executor; scale_in(len(job_ids)) when it scales
C487 ==
    /\ cl.pc = "for"
    /\ IF cl.idx > Len(executors)
       THEN /\ cl' = [pc |-> "done", idx |-> 0]
            /\ UNCHANGED calls
       ELSE /\ cl' = [cl EXCEPT !.pc = "shutdown"]
            /\ calls' = IF executors[cl.idx].scaling_enabled
                        THEN Append(calls, [executor |-> cl.idx, op |-> "scale_in",
                                            n |-> executors[cl.idx].resources])
                        ELSE calls
    /\ UNCHANGED <<_executors_managed, executors>>

\* line 493: executor.shutdown()
C493 ==
    /\ cl.pc = "shutdown"
    /\ calls' = Append(calls, [executor |-> cl.idx, op |-> "shutdown", n |-> 0])
    /\ cl' = [pc |-> "for", idx |-> cl.idx + 1]
    /\ UNCHANGED <<_executors_managed, executors>>

\* the kernel's own state, which cleanup leaves alone
kernelVars == <<lazy_fail, task_count, tasks, taskKeys, appFu, execFu, thr, raised, cur, switches>>

\* the registries cleanup can meet
ExecutorLists ==
    UNION {[1..k -> {Executor(s, n) : s \in BOOLEAN, n \in 0..MaxResources}] : k \in 0..MaxExecutors}

\* A kernel built from a config (managed) or from pre-built executors, on
\* which cleanup is called at exit.
InitCleanup ==
    /\ lazy_fail \in BOOLEAN
    /\ task_count = 0
    /\ tasks = <<>>
    /\ taskKeys = <<>>
    /\ appFu = <<>>
    /\ execFu = <<>>
    /\ thr = [t \in Threads |-> IdleThread]
    /\ raised = {}
    /\ cur = 0
    /\ switches = 0
    /\ _executors_managed \in BOOLEAN
    /\ executors \in ExecutorLists
    /\ calls = <<>>
    /\ cl = CleanupNotCalled

NextCleanup ==
    \/ C484 /\ UNCHANGED kernelVars
    \/ C487 /\ UNCHANGED kernelVars
    \/ C493 /\ UNCHANGED kernelVars

SpecCleanup == InitCleanup /\ [][NextCleanup]_vars

\* the positions in calls of the calls of op on executor x
CallsOf(x, op) == {i \in DOMAIN calls : calls[i].executor = x /\ calls[i].op = op}

AllSettled(pack) ==
    \A s \in {pack.args, pack.kw, pack.inputs} :
        \A i \in DOMAIN s : IsFuture(s[i]) => Done(s[i].tid)

\* the submit call that stored the record of task t has returned
Returned(t) == \A th \in Threads : ~(InSubmit(th) /\ thr[th].task_id = t)

\* a task for which submit counted no dependency, whose handles all hold
\* values and whose sites can be routed, has been handed to an executor once
\* when submit has returned, and is not pending
ZeroDepLaunched ==
    \A t \in DOMAIN tasks :
        (Returned(t) /\ tasks[t].dep_cnt = 0 /\ ~FailedDep(t)
           /\ ~NoRegisteredSite(tasks[t].sites)) =>
              /\ Cardinality(Launches(t)) = 1
              /\ tasks[t].status # pending

\* C16: zero-dependency submit.  submit counts 0 dependencies exactly when
\* its arguments hold no handle or only handles settled at that time, and a
\* task counted so, whose handles hold values, is handed to an executor
\* before submit returns and is never pending.
C16_ZeroDepSubmit ==
    [][/\ \A th \in Threads :
             (thr[th].pc = "S413" /\ thr'[th].pc = "S430") =>
                 (thr'[th].dep_cnt = 0 <=> AllSettled(thr[th].pack))
       /\ ZeroDepLaunched'
      ]_vars

\* One thread submits with sites 'all' in lazy-fail mode and a callback may
\* run on an executor's thread while submit is under way.  A submit call that
\* has started returns, every future of an executor settles and its callbacks
\* run; the user program need not call submit again.
Overlapping ==
    [tasks |-> MaxTasks, threads |-> {1}, groups |-> {"args"}, plain |-> FALSE,
     items |-> MaxItems, sites |-> {SitesAll}, lazy |-> {TRUE}, preempt |-> RacePreempt]

NextWake == Step(Overlapping)

SpecWake == Init(Overlapping) /\ [][NextWake]_vars /\ WF_vars(Progress(Overlapping))

\* submit has counted dependencies for task t (line 413) and has not yet
\* written pending (line 463), while every dependency of t has settled and
\* the callbacks of the tasks t depends on are over
WakeupMissed(t) ==
    \E th \in Threads :
        /\ thr[th].pc = "S436" /\ thr[th].task_id = t /\ thr[th].dep_cnt # 0
        /\ \A i \in DOMAIN thr[th].depends : Done(thr[th].depends[i])
        /\ \A e \in DOMAIN execFu : execFu[e].pc \in {"running", "done"}

\* C17: no lost wakeup.  A task whose last dependency completed, and was
\* swept for, between the count of its dependencies and the write of
\* pending in submit is eventually launched or marked dep_fail.
C17_NoLostWakeup ==
    \A t \in 0..(MaxTasks - 1) :
        WakeupMissed(t) ~> (t \in DOMAIN tasks /\ tasks[t].status \in {running, done, failed, dep_fail})

\* C18: executor-handle ownership.  The exec_fu field of a task always
\* refers to a future created for that task: the sweep stores the future of a
\* promoted task under the promoted task's id only, and the completion
\* callback of a task never changes that task's own exec_fu.
C18_ExecHandleOwnership ==
    \A t \in DOMAIN tasks :
        tasks[t].exec_fu # 0 => execFu[tasks[t].exec_fu].tid = t

\* C19: same-sweep promotion.  While the completion callback of a task
\* sweeps the table the app handle of that task is settled, and when the
\* sweep is over no task is left pending whose only unsettled dependency was
\* that app handle.
C19_SameSweepPromotion ==
    \A e \in DOMAIN execFu :
        /\ InHandleUpdate(e) => Settled(execFu[e].tid)
        /\ (execFu[e].pc = "cb" /\ ~EagerFailure(e)) =>
              \A t \in DOMAIN tasks :
                  tasks[t].status = pending =>
                      \E i \in DOMAIN tasks[t].depends :
                          /\ ~Done(tasks[t].depends[i])
                          /\ appFu[tasks[t].depends[i]].tid # execFu[e].tid

\* the errors held by the handles in the depends list of task t, in order
DepErrors(t) ==
    SelectSeq([i \in DOMAIN tasks[t].depends |-> appFu[tasks[t].depends[i]].val], IsErr)

\* C20: DependencyError payload.  The app handle of a task marked dep_fail,
\* at submit time or by the sweep, holds a DependencyError that carries the
\* id of that task and exactly the errors of its failed dependencies.
C20_DependencyErrorPayload ==
    \A t \in DOMAIN tasks :
        (tasks[t].status = dep_fail /\ Settled(t)) =>
            appFu[tasks[t].app_fu].val = Obj("DependencyError", t, DepErrors(t))

\* One thread submits tasks with up to two handles as inputs, in lazy-fail
\* mode with sites 'all'; handlers run to completion.  Enough tasks for a
\* diamond and one more task whose completion sweeps the table.
Diamond ==
    [tasks |-> DiamondTasks, threads |-> {1}, groups |-> {"inputs"}, plain |-> FALSE,
     items |-> DiamondItems, sites |-> {SitesAll}, lazy |-> {TRUE}, preempt |-> 0]

\* the user program names every handle once in a submit call, oldest first
OldestFirst ==
    \A t \in Threads :
        \A i, j \in DOMAIN thr[t].pack.inputs :
            i < j => thr[t].pack.inputs[i].tid < thr[t].pack.inputs[j].tid

NextDiamond ==
    \/ \E t \in Diamond.threads : S409(t, Diamond) /\ OldestFirst'
    \/ Progress(Diamond)

SpecDiamond == Init(Diamond) /\ [][NextDiamond]_vars

\* exec future x was created by the sweep: submit had sent its task to pending
Promoted(x) == execFu[x].executor /\ tasks[execFu[x].tid].dep_cnt # 0

\* the handles of task t that were passed as keyword values or inputs
RestDeps(t) ==
    SubSeq(tasks[t].depends, Len(FuturesOf(tasks[t].pack.args)) + 1, Len(tasks[t].depends))

\* the call made for exec future x holds the arguments of its task, every
\* handle replaced by the value it settled with, the rest in place
ResolvedCall(x) ==
    LET t == execFu[x].tid
        c == execFu[x].call
    IN  /\ c.args = [i \in DOMAIN tasks[t].pack.args |-> Result(tasks[t].pack.args[i])]
        /\ c.kw \o c.inputs = [i \in DOMAIN RestDeps(t) |-> appFu[RestDeps(t)[i]].val]
        /\ Len(c.kw) = Len(tasks[t].pack.kw) /\ Len(c.inputs) = Len(tasks[t].pack.inputs)
        /\ \A s \in {c.args, c.kw, c.inputs} : \A i \in DOMAIN s : s[i].kind \in {"plain", "value"}

\* every task that the task of exec future x depends on has completed, and
\* its handle holds the value of its own function
DepsCompleted(x) ==
    \A i \in DOMAIN tasks[execFu[x].tid].depends :
        LET d == tasks[execFu[x].tid].depends[i] IN
            /\ appFu[d].val = Obj("value", appFu[d].tid, <<>>)
            /\ \E e \in Launches(appFu[d].tid) : Completed(e)

\* C21: resolved inputs.  A task promoted by the sweep is handed to the
\* executor after all the tasks it depends on have completed, with its own
\* arguments: every handle replaced by the value it settled with, every other
\* value unchanged and in place.
C21_ResolvedInputs ==
    \A x \in DOMAIN execFu : Promoted(x) => ResolvedCall(x) /\ DepsCompleted(x)

\* task t has been launched as far as its status tells
Launched(t) == tasks[t].status \in {running, done, failed}

\* C22: whenever no submit call and no completion callback is under way,
\* every task whose status is running, done or failed has an executor handle
\* (exec_fu is not None), also after the launch of a task promoted by the
\* sweep found no executor.
C22_LaunchedHasExecFu ==
    Quiescent => \A t \in DOMAIN tasks : Launched(t) => tasks[t].exec_fu # 0

\* task t waits although none of its dependencies is unsettled
ReadyPending(t) == tasks[t].status = pending /\ _count_deps(tasks[t].depends) = 0

\* C23: sweep completeness.  With handlers that run to completion in
\* lazy-fail mode, whenever the completion callbacks have returned no task is
\* left pending with all of its dependencies settled.
C23_SweepCompleteness ==
    Quiescent => \A t \in DOMAIN tasks : ~ReadyPending(t)

====
